---- MODULE Spec2Model ----
(***************************************************************************)
(* Model of the conditional-diffusion validation pipeline                  *)
(* (src/validation/validation_pipeline.py): ValidationConfig,              *)
(* ConditionalDiffusionValidator and its run_full_pipeline; of the         *)
(* single-user workflow (src/validation/single_user_validation.py); and    *)
(* of the autoencoder checker (src/check_vae.py): VAEChecker.              *)
(*                                                                         *)
(* Accuracies, success rates and confidences are percentages (0.7 is 70).  *)
(* Tensor values are abstract floats: a finite integer, NaN or an          *)
(* infinity, with IEEE-754 propagation rules (signed zero is not           *)
(* distinguished, finite values do not overflow).                          *)
(***************************************************************************)
EXTENDS Integers, Sequences, FiniteSets, TLC

\* ------------------------------------------------------------------ bounds
MaxInferenceSteps == 2
MaxImages == 2
MaxEpochs == 2
MaxSamples == 2
MaxDirs == 3
\* average MSE ranges over 10^(-MaxExponent/20) .. 10^(MaxExponent/20)
MaxExponent == 60
\* images in the test split that check_reconstruction_quality draws from
MaxDataset == 5

\* ------------------------------------------------------- program constants
\* train_classifier: return best_val_acc > 0.7
MinValAcc == 70
\* run_full_pipeline: success_rate >= 0.6 and avg_confidence >= 0.8
SuccessRateGate == 60
ConfidenceGate == 80
\* DDPMScheduler(num_train_timesteps=1000, ...)
num_train_timesteps == 1000
\* ValidationConfig.guidance_scale default
DefaultGuidanceScale == 15

\* ------------------------------------------------------------ small helpers
Range(s) == {s[i] : i \in 1..Len(s)}

Min(a, b) == IF a <= b THEN a ELSE b

RECURSIVE MaxOf(_)
\* Python max() of a non-empty list
MaxOf(s) ==
    IF Len(s) = 1 THEN s[1]
    ELSE LET m == MaxOf(Tail(s)) IN IF s[1] >= m THEN s[1] ELSE m

RECURSIVE Concat(_)
Concat(ss) == IF ss = <<>> THEN <<>> ELSE Head(ss) \o Concat(Tail(ss))

\* all sequences over S of length 0..n
SeqsUpTo(S, n) == UNION {[1..m -> S] : m \in 0..n}

\* ------------------------------------------------------- abstract floats
Fin(n) == [k |-> "fin", v |-> n]
NaN == [k |-> "nan", v |-> 0]
PInf == [k |-> "inf", v |-> 1]
NInf == [k |-> "inf", v |-> -1]

IsFinite(x) == x.k = "fin"

Sign(n) == IF n > 0 THEN 1 ELSE IF n < 0 THEN -1 ELSE 0

FNeg(a) ==
    IF a.k = "nan" THEN NaN ELSE [k |-> a.k, v |-> -a.v]

\* a + b
FAdd(a, b) ==
    IF a.k = "nan" \/ b.k = "nan" THEN NaN
    ELSE IF a.k = "inf" /\ b.k = "inf" THEN (IF a.v = b.v THEN a ELSE NaN)
    ELSE IF a.k = "inf" THEN a
    ELSE IF b.k = "inf" THEN b
    ELSE Fin(a.v + b.v)

\* a - b
FSub(a, b) == FAdd(a, FNeg(b))

\* a * b
FMul(a, b) ==
    IF a.k = "nan" \/ b.k = "nan" THEN NaN
    ELSE IF a.k = "inf" \/ b.k = "inf" THEN
        (IF Sign(a.v) * Sign(b.v) = 0 THEN NaN
         ELSE [k |-> "inf", v |-> Sign(a.v) * Sign(b.v)])
    ELSE Fin(a.v * b.v)

\* a < b on floats: False whenever a NaN is involved
FLt(a, b) ==
    /\ a.k # "nan"
    /\ b.k # "nan"
    /\ \/ a.k = "fin" /\ b.k = "fin" /\ a.v < b.v
       \/ a.k = "fin" /\ b = PInf
       \/ a = NInf /\ b.k = "fin"
       \/ a = NInf /\ b = PInf

\* The positive float 10^(q/20), q an integer: floats have a finite
\* relative resolution, here a twentieth of a decade.  1/x and 20*log10
\* map representable values to representable values; sqrt has to round.
Pow10(q) == [k |-> "pow10", v |-> q]

\* x > 0 (False for NaN)
GtZero(x) ==
    \/ x.k = "pow10"
    \/ x.k = "fin" /\ x.v > 0
    \/ x = PInf

\* np.sqrt(x) for x >= 0: 10^(q/40), rounded to a representable value
np_sqrt(x) ==
    IF x.k = "pow10" THEN Pow10(x.v \div 2) ELSE x

\* 1.0 / x on NumPy floats: 1/0 is inf, not an exception
np_reciprocal(x) ==
    IF x.k = "pow10" THEN Pow10(-x.v)
    ELSE IF x.k = "nan" THEN NaN
    ELSE IF x.k = "inf" THEN Fin(0)
    ELSE PInf

\* 20 * np.log10(x) for x >= 0, in decibels
np_20log10(x) ==
    IF x.k = "pow10" THEN Fin(x.v)
    ELSE IF x.k = "nan" THEN NaN
    ELSE IF x.k = "inf" THEN PInf
    ELSE NInf

\* ------------------------------------------------------ directory names
\* A directory entry's name is its '_'-separated pieces: prefix is the
\* piece before the first '_', parts the pieces after it.  A piece is a
\* sequence of characters: 0..9 are the digits, Letter is a non-digit.
Letter == 10

Name(prefix, parts) == [prefix |-> prefix, parts |-> parts]

\* name.startswith('ID_')
startswith_ID(name) == name.prefix = "ID" /\ Len(name.parts) >= 1

\* int(piece) failed with ValueError
ValueError == -1

RECURSIVE DigitsValue(_)
DigitsValue(piece) ==
    IF piece = <<>> THEN 0
    ELSE 10 * DigitsValue(SubSeq(piece, 1, Len(piece) - 1)) + piece[Len(piece)]

\* int(piece): the value of a non-empty digit string (leading zeros are
\* accepted), ValueError otherwise
ParseInt(piece) ==
    IF piece = <<>> \/ \E i \in 1..Len(piece) : piece[i] = Letter
    THEN ValueError
    ELSE DigitsValue(piece)

RECURSIVE FormatInt(_)
\* f"{n}" for n >= 0: decimal digits without leading zeros
FormatInt(n) == IF n < 10 THEN <<n>> ELSE FormatInt(n \div 10) \o <<n % 10>>

\* f"ID_{target_user_id}"
IDName(target) == Name("ID", <<FormatInt(target)>>)

\* int(name.split('_')[1])
SplitId(name) == ParseInt(name.parts[1])

\* --------------------------------------------- _get_user_id_mapping
\* all_users: one id per accepted directory, in iterdir order
all_users(listing) ==
    LET ok(e) == e.is_dir /\ startswith_ID(e.name) /\ SplitId(e.name) # ValueError
        kept == SelectSeq(listing, ok)
    IN [i \in 1..Len(kept) |-> SplitId(kept[i].name)]

\* sorted(all_users)
sorted(s) == SortSeq(s, LAMBDA a, b : a < b)

\* {user_id: idx for idx, user_id in enumerate(seq)}: a later pair
\* overwrites an earlier one with the same key
DictFromEnumerate(seq) ==
    [u \in Range(seq) |->
        (CHOOSE i \in 1..Len(seq) :
            seq[i] = u /\ \A j \in (i+1)..Len(seq) : seq[j] # u) - 1]

get_user_id_mapping(listing) == DictFromEnumerate(sorted(all_users(listing)))

\* --------------------------------------------- _prepare_classifier_data
ImagePaths(e) == [j \in 1..e.images |-> [dir |-> e.name, img |-> j]]

\* the target matched by its parsed id, as the mapping matches it
target_user_dir_by_id(listing, target) ==
    SelectSeq(listing, LAMBDA e :
        e.is_dir /\ startswith_ID(e.name) /\ SplitId(e.name) = target)

\* the directory selected as target_user_dir (<<>> when none is)
target_user_dir(listing, target) ==
    SelectSeq(listing, LAMBDA e : e.is_dir /\ e.name = IDName(target))

\* the others told from the target by name alone
other_user_dirs_by_name(listing, target) ==
    SelectSeq(listing, LAMBDA e :
        e.is_dir /\ e.name # IDName(target) /\ startswith_ID(e.name)
                 /\ SplitId(e.name) # ValueError)

other_user_dirs(listing, target) ==
    SelectSeq(listing, LAMBDA e :
        /\ e.is_dir
        /\ e.name # IDName(target)
        /\ startswith_ID(e.name)
        /\ SplitId(e.name) # ValueError
        /\ SplitId(e.name) # target)

\* Python's s[:n]: the first n elements, and for a negative n all but the
\* last -n
SliceTo(s, n) ==
    IF n >= 0 THEN SubSeq(s, 1, Min(n, Len(s))) ELSE SubSeq(s, 1, Len(s) + n)

\* returns the (image_path, label) pairs in the order they are appended
prepare_classifier_data(listing, target, cap) ==
    LET tdir == target_user_dir(listing, target)
        odirs == other_user_dirs(listing, target)
        target_images == SliceTo(ImagePaths(tdir[Len(tdir)]), cap)
        other_images == Concat([i \in 1..Len(odirs) |-> ImagePaths(odirs[i])])
        negatives == SubSeq(other_images, 1, Min(cap, Len(other_images)))
    IN  IF tdir = <<>> THEN <<>>
        ELSE [i \in 1..Len(target_images) |-> [path |-> target_images[i], label |-> 1]]
             \o [i \in 1..Len(negatives) |-> [path |-> negatives[i], label |-> 0]]

\* ------------------------------------------------ external collaborators
\* DDPMScheduler.set_timesteps(k) with the scheduler as constructed in
\* load_models (default "leading" spacing, steps_offset 0):
\* (arange(0, k) * (num_train_timesteps // k))[::-1]
set_timesteps(k) == [i \in 1..k |-> (k - i) * (num_train_timesteps \div k)]

\* values a forward pass of the denoising network can return
UnetOutputs == {Fin(1), Fin(3), NaN, PInf}

\* torch.randn(...) * init_noise_sigma
InitialLatents == {Fin(-1), Fin(2)}

NonFinite == {NaN, PInf}

\* scheduler.step(noise_pred, t, latents).prev_sample: a mean computed from
\* both arguments plus fresh variance noise; non-finite inputs propagate
StepOutcomes(noise_pred, lat) ==
    IF IsFinite(noise_pred) /\ IsFinite(lat) THEN InitialLatents ELSE NonFinite

\* condition_encoder(user_tensor), unsqueezed to a 3D tensor
Embed(user_idx) == [shape |-> <<1, 1>>, zero |-> FALSE, idx |-> user_idx]

\* torch.zeros_like(user_embedding)
ZerosLike(e) == [shape |-> e.shape, zero |-> TRUE, idx |-> 0]

\* validation accuracies one epoch can record (percent)
AccVals == {60, 70, 80}

\* train_user_classifier(...): raises, or returns a history whose val_acc
\* has one entry per epoch; it fails when either class has no example
TrainOutcomes(data, epochs) ==
    IF \/ ~\E i \in 1..Len(data) : data[i].label = 1
       \/ ~\E i \in 1..Len(data) : data[i].label = 0
    THEN {[raised |-> TRUE, val_acc |-> <<>>]}
    ELSE {[raised |-> TRUE, val_acc |-> <<>>]}
         \cup {[raised |-> FALSE, val_acc |-> h] : h \in [1..epochs -> AccVals]}

\* success rates and mean confidences a scoring run can report (percent)
RateVals == {50, 60, 65, 70}
ConfVals == {75, 80, 85, 90}

\* UserValidationSystem.validate_generated_images(dir): an empty directory
\* is an error; otherwise one record for the images found
ScorerOutcomes(fs) ==
    IF fs = {} THEN {[raised |-> TRUE]}
    ELSE {[raised |-> TRUE]}
         \cup {[raised |-> FALSE, total_images |-> Cardinality(fs),
                success_rate |-> sr, avg_confidence |-> ac] :
               sr \in RateVals, ac \in ConfVals}

\* --------------------------------------------------------------- state
VARIABLES
    config,           \* ValidationConfig
    dataRoot,         \* the directory real_data_root: exists, listing in iterdir order
    generate,         \* run_full_pipeline's generate_images argument
    pc,               \* position in run_full_pipeline
    results,          \* the results dict
    calls,            \* how often each collaborator / method was entered
    best_val_acc,     \* train_classifier's best_val_acc (None before it is computed)
    train_data,       \* the (path, label) pairs handed to train_user_classifier
    models_loaded,    \* vae, unet, condition_encoder and scheduler are all set
    user_id_mapping,  \* self.user_id_mapping: [set, map]
    timesteps,        \* self.scheduler.timesteps
    img,              \* images completed in generate_images (the loop's i)
    step,             \* index into timesteps of the next denoising step
    latents,          \* the current sample's latent
    noise,            \* the last step's noise_pred_cond, noise_pred_uncond, noise_pred
    unet_log,         \* the denoiser calls of the last step: latents, t, embedding, output
    tainted,          \* a non-finite value occurred while sampling the current image
    files,            \* image files in gen_output_dir
    generated_dir,    \* run_full_pipeline's generated_dir / generated_images_dir
    iterated,         \* per image, the timestep sequence its loop iterates
    ret,              \* what single_user_workflow returned (or that it raised)
    exit_code,        \* the process exit code (None while running)
    quality,          \* check_reconstruction_quality's locals
    classifier,       \* validation_system's classifier of the target: the epoch its
                      \* parameters are from, and the history returned with it
                      \* (kept until step 2 of run_full_pipeline begins)
    checker           \* VAEChecker.full_check: its position, what it found and loaded

vars == <<config, dataRoot, generate, pc, results, calls, best_val_acc,
          train_data, models_loaded, user_id_mapping, timesteps, img, step,
          latents, noise, unet_log, tainted, files, generated_dir, iterated,
          ret, exit_code, quality, classifier, checker>>

None == -1
NoDir == "None"
GenDir == "generated_images/user"

NoNoise == [cond |-> Fin(0), uncond |-> Fin(0), pred |-> Fin(0)]

NoCalls == [train_user_classifier |-> 0, load_models |-> 0, generate_images |-> 0,
            validate_generated_images |-> 0, unet |-> 0, guided |-> 0,
            scheduler_step |-> 0]

Bump(c, f) == [c EXCEPT ![f] = @ + 1]

\* ------------------------------------------------------------ inputs
Entry(name, is_dir, images) == [name |-> name, is_dir |-> is_dir, images |-> images]

ID_1 == Name("ID", <<<<1>>>>)
ID_01 == Name("ID", <<<<0, 1>>>>)
ID_2 == Name("ID", <<<<2>>>>)
ID_3 == Name("ID", <<<<3>>>>)
ID_1_x == Name("ID", <<<<1>>, <<Letter>>>>)
ID_x == Name("ID", <<<<Letter>>>>)
user_1 == Name("user", <<<<1>>>>)
user_2 == Name("user", <<<<2>>>>)

Root(listing) == [exists |-> TRUE, listing |-> listing]
MissingRoot == [exists |-> FALSE, listing |-> <<>>]

\* the data roots a pipeline run is started on
PipelineRoots ==
    { MissingRoot,
      Root(<<Entry(ID_1, TRUE, MaxSamples), Entry(ID_2, TRUE, MaxSamples)>>),
      Root(<<Entry(ID_1, TRUE, 0), Entry(ID_2, TRUE, 1)>>),
      Root(<<Entry(ID_1, TRUE, 1), Entry(user_1, TRUE, 1)>>),
      Root(<<Entry(ID_01, TRUE, 1), Entry(ID_2, TRUE, 1)>>),
      Root(<<Entry(ID_2, TRUE, 1), Entry(ID_01, TRUE, 1), Entry(ID_1, TRUE, 1)>>) }

GuidanceScales == {0, DefaultGuidanceScale}

\* vae_path, unet_path, condition_encoder_path: given (TRUE) or None
PathChoices ==
    { <<TRUE, TRUE, TRUE>>, <<FALSE, TRUE, TRUE>>, <<TRUE, FALSE, TRUE>>,
      <<TRUE, TRUE, FALSE>> }

Configs ==
    { [target_user_id |-> 1,
       max_samples_per_class |-> MaxSamples,
       classifier_epochs |-> e,
       num_images_to_generate |-> n,
       guidance_scale |-> w,
       num_inference_steps |-> k,
       vae_path |-> p[1], unet_path |-> p[2], condition_encoder_path |-> p[3]] :
      e \in 0..MaxEpochs, n \in 0..MaxImages, w \in GuidanceScales,
      k \in 1..MaxInferenceSteps, p \in PathChoices }

\* the results dict as run_full_pipeline creates it
InitialResults(cfg) ==
    [target_user_id |-> cfg.target_user_id,
     config |-> cfg,
     classifier_trained |-> FALSE,
     images_generated |-> FALSE,
     validation_completed |-> FALSE,
     success |-> FALSE]

NoMapping == [set |-> FALSE, map |-> <<>>]

\* no classifier has been trained
NoClassifier == [epoch |-> None, val_acc |-> <<>>]

\* full_check has not been entered
NoChecker == [stage |-> "none"]

\* check_reconstruction_quality has not computed anything
NoQuality == [avg_mse |-> Fin(0), psnr |-> Fin(0)]

\* an image file user_{id}_generated_{index:02d}.png: what was saved, after
\* how many reverse steps, and who wrote it ("generate_images" of this run,
\* the generation script of this run, or an "earlier_run")
ImageFile(index, pixel, nonfinite, steps, by) ==
    [index |-> index, pixel |-> pixel, nonfinite |-> nonfinite, steps |-> steps,
     by |-> by]

\* gen_output_dir before the run: absent or empty, or still holding the
\* last file of an earlier run that generated MaxImages images
EarlierRunFiles == {{}, {ImageFile(MaxImages, Fin(0), FALSE, 1, "earlier_run")}}

\* everything but config, dataRoot, generate, files, quality and checker, as __init__ and the entry
\* of run_full_pipeline leave it
Fresh ==
    /\ results = InitialResults(config)
    /\ calls = NoCalls
    /\ best_val_acc = None
    /\ train_data = <<>>
    /\ models_loaded = FALSE
    /\ user_id_mapping = NoMapping
    /\ timesteps = <<>>
    /\ img = 0
    /\ step = 0
    /\ latents = Fin(0)
    /\ noise = NoNoise
    /\ unet_log = <<>>
    /\ tainted = FALSE
    /\ generated_dir = NoDir
    /\ iterated = <<>>
    /\ ret = "None"
    /\ exit_code = None
    /\ classifier = NoClassifier

\* validation_pipeline.main has built the validator and enters
\* run_full_pipeline
PipelineStart ==
    /\ config \in Configs
    /\ dataRoot \in PipelineRoots
    /\ generate \in BOOLEAN
    /\ files \in EarlierRunFiles
    /\ pc = "train"
    /\ quality = NoQuality
    /\ checker = NoChecker
    /\ Fresh

\* the data roots single_user_workflow is started on
SingleUserRoots ==
    { MissingRoot,
      Root(<<Entry(user_1, TRUE, 1), Entry(user_2, TRUE, 1)>>),
      Root(<<Entry(user_2, TRUE, 1), Entry(user_1, TRUE, MaxSamples)>>),
      Root(<<Entry(user_1, TRUE, 1)>>),
      Root(<<Entry(user_2, TRUE, 1)>>),
      Root(<<Entry(ID_1, TRUE, 1), Entry(ID_2, TRUE, 1)>>) }

\* single_user_workflow's arguments, in the fields of a ValidationConfig
SingleUserConfigs ==
    { [target_user_id |-> 1,
       max_samples_per_class |-> MaxSamples,
       classifier_epochs |-> MaxEpochs,
       num_images_to_generate |-> n,
       guidance_scale |-> DefaultGuidanceScale,
       num_inference_steps |-> 1,
       vae_path |-> p[1], unet_path |-> p[2], condition_encoder_path |-> p[3]] :
      n \in 0..MaxImages, p \in PathChoices }

\* a path given as generated_images_dir under which nothing exists
MissingDir == "no/such/dir"

\* single_user_validation.main enters single_user_workflow;
\* generated_images_dir is None, the directory of the files, or a path that
\* does not exist
SingleUserStart ==
    /\ config \in SingleUserConfigs
    /\ dataRoot \in SingleUserRoots
    /\ generate \in BOOLEAN
    /\ files \in EarlierRunFiles
    /\ pc = "su_prepare"
    /\ results = InitialResults(config)
    /\ calls = NoCalls
    /\ best_val_acc = None
    /\ train_data = <<>>
    /\ models_loaded = FALSE
    /\ user_id_mapping = NoMapping
    /\ timesteps = <<>>
    /\ img = 0
    /\ step = 0
    /\ latents = Fin(0)
    /\ noise = NoNoise
    /\ unet_log = <<>>
    /\ tainted = FALSE
    /\ generated_dir \in {NoDir, GenDir, MissingDir}
    /\ iterated = <<>>
    /\ ret = "None"
    /\ exit_code = None
    /\ classifier = NoClassifier
    /\ checker = NoChecker
    /\ quality = NoQuality

Init == PipelineStart \/ SingleUserStart

\* ------------------------------------------------------ train_classifier
\* the accuracy gate met at equality
train_classifier_result_ge(data, out) ==
    IF out.raised \/ out.val_acc = <<>> THEN [ok |-> FALSE, best |-> None]
    ELSE [ok |-> MaxOf(out.val_acc) >= MinValAcc, best |-> MaxOf(out.val_acc)]

\* the gate applied to the final epoch instead of the best one
train_classifier_result_final(data, out) ==
    IF out.raised \/ out.val_acc = <<>> THEN [ok |-> FALSE, best |-> None]
    ELSE [ok |-> out.val_acc[Len(out.val_acc)] > MinValAcc,
          best |-> MaxOf(out.val_acc)]

\* the gate applied to the first epoch
train_classifier_result_first(data, out) ==
    IF out.raised \/ out.val_acc = <<>> THEN [ok |-> FALSE, best |-> None]
    ELSE [ok |-> out.val_acc[1] > MinValAcc, best |-> MaxOf(out.val_acc)]

\* what train_user_classifier leaves in validation_system: the parameters
\* of the final epoch, returned together with the full history
trained_classifier(out) == [epoch |-> Len(out.val_acc), val_acc |-> out.val_acc]

\* the method's return value and what it leaves behind, for one outcome of
\* train_user_classifier
train_classifier_result(data, out) ==
    IF out.raised \/ out.val_acc = <<>> THEN [ok |-> FALSE, best |-> None]
    ELSE [ok |-> MaxOf(out.val_acc) > MinValAcc, best |-> MaxOf(out.val_acc)]

\* history is a local of train_classifier: nothing of it is left once
\* run_full_pipeline goes on to step 2
history_dropped(c) == [c EXCEPT !.val_acc = <<>>]

\* step 1 of run_full_pipeline: train_classifier() and the early return
TrainClassifier ==
    /\ pc = "train"
    /\ LET data == IF dataRoot.exists
                   THEN prepare_classifier_data(dataRoot.listing,
                            config.target_user_id, config.max_samples_per_class)
                   ELSE <<>>
       IN  IF ~dataRoot.exists \/ Len(data) = 0
           THEN \* iterdir raised, or no training data: return False
                /\ pc' = "returned"
                /\ UNCHANGED <<results, calls, best_val_acc, train_data, classifier>>
           ELSE \E out \in TrainOutcomes(data, config.classifier_epochs) :
                LET r == train_classifier_result(data, out) IN
                /\ calls' = Bump(calls, "train_user_classifier")
                /\ classifier' = IF out.raised THEN classifier
                                  ELSE trained_classifier(out)
                /\ train_data' = data
                /\ best_val_acc' = r.best
                /\ IF r.ok
                   THEN /\ results' = [results EXCEPT !.classifier_trained = TRUE]
                        /\ pc' = "step2"
                   ELSE /\ pc' = "returned"
                        /\ UNCHANGED results
    /\ UNCHANGED <<ret, exit_code, quality, checker, config, dataRoot, generate, models_loaded, user_id_mapping,
                   timesteps, img, step, latents, noise, unet_log, tainted,
                   files, generated_dir, iterated>>

\* ----------------------------------------------------------- load_models
\* where loading stops: nowhere, at the VAE/UNet, or at the condition encoder
LoadOutcomes == {"ok", "vae_fails", "encoder_fails"}

\* step 2 with generate_images=True: load_models()
LoadModels ==
    /\ pc = "step2"
    /\ generate
    /\ calls' = Bump(calls, "load_models")
    /\ classifier' = history_dropped(classifier)
    /\ IF ~(config.vae_path /\ config.unet_path /\ config.condition_encoder_path)
       THEN /\ pc' = "step3"
            /\ UNCHANGED <<models_loaded, user_id_mapping>>
       ELSE \E out \in LoadOutcomes :
            IF out = "vae_fails" \/ ~dataRoot.exists
            THEN /\ pc' = "step3"
                 /\ UNCHANGED <<models_loaded, user_id_mapping>>
            ELSE /\ user_id_mapping' =
                        [set |-> TRUE, map |-> get_user_id_mapping(dataRoot.listing)]
                 /\ models_loaded' = (out = "ok")
                 /\ pc' = IF out = "ok" THEN "generate" ELSE "step3"
    /\ UNCHANGED <<ret, exit_code, quality, checker, config, dataRoot, generate, results, best_val_acc, train_data,
                   timesteps, img, step, latents, noise, unet_log, tainted,
                   files, generated_dir, iterated>>

\* step 2 with generate_images=False taking the images of an earlier run
SkipGenerationScoresExisting ==
    /\ pc = "step2"
    /\ ~generate
    /\ pc' = "step3"
    /\ classifier' = history_dropped(classifier)
    /\ generated_dir' = GenDir
    /\ UNCHANGED <<ret, exit_code, quality, checker, config, dataRoot, generate, results, calls, best_val_acc,
                   train_data, models_loaded, user_id_mapping, timesteps, img,
                   step, latents, noise, unet_log, tainted, files, iterated>>

\* step 2 with generate_images=False
SkipGeneration ==
    /\ pc = "step2"
    /\ ~generate
    /\ pc' = "step3"
    /\ classifier' = history_dropped(classifier)
    /\ UNCHANGED <<ret, exit_code, quality, checker, config, dataRoot, generate, results, calls, best_val_acc,
                   train_data, models_loaded, user_id_mapping, timesteps, img,
                   step, latents, noise, unet_log, tainted, files,
                   generated_dir, iterated>>

\* -------------------------------------------------------- generate_images
\* the two predictions exchanged
guided_swapped(uncond, cond, w) == FAdd(cond, FMul(Fin(w), FSub(uncond, cond)))

\* guidance added on top of the conditional prediction
guided_from_cond(uncond, cond, w) == FAdd(cond, FMul(Fin(w), FSub(cond, uncond)))

\* noise_pred_uncond + guidance_scale * (noise_pred_cond - noise_pred_uncond)
guided(uncond, cond, w) == FAdd(uncond, FMul(Fin(w), FSub(cond, uncond)))

\* the two forward passes of one denoising step, in call order
unet_calls(lat, t, emb, cond, uncond) ==
    << [latents |-> lat, t |-> t, encoder_hidden_states |-> emb, sample |-> cond],
       [latents |-> lat, t |-> t, encoder_hidden_states |-> ZerosLike(emb),
        sample |-> uncond] >>

\* images.clamp(0, 1) of the decoded pixel
clamp01(x) ==
    IF x.k = "nan" THEN NaN
    ELSE IF x.k = "inf" THEN (IF x.v > 0 THEN Fin(1) ELSE Fin(0))
    ELSE IF x.v < 0 THEN Fin(0) ELSE IF x.v > 1 THEN Fin(1) ELSE x

\* self.vae as load_models leaves it: an AutoencoderKL whose config holds
\* the scaling factor, here the rational 1/5
LoadedVae == [config |-> [scaling_factor |-> [num |-> 1, den |-> 5]]]

\* the same autoencoder behind a wrapper that exposes it as .module
Wrapped(vae) == [module |-> vae]

\* self.vae.module if hasattr(self.vae, 'module') else self.vae
vae_model(vae) == IF "module" \in DOMAIN vae THEN vae.module ELSE vae

\* latents / scaling_factor
div_scaling_factor(x, sf) ==
    IF x.k = "fin" THEN Fin((x.v * sf.den) \div sf.num) ELSE x

\* values vae_model.decode(z).sample can hold: any pixel value for a finite
\* latent, NaN for one that is not
DecoderOutputs(z) ==
    IF IsFinite(z) THEN {Fin(-1), Fin(0), Fin(1), Fin(2)} ELSE {NaN}

\* the pixel values the decoding block can end with
decode_image(vae, lat) ==
    LET m == vae_model(vae)
        scaled == div_scaling_factor(lat, m.config.scaling_factor)
    IN  {clamp01(d) : d \in DecoderOutputs(scaled)}

\* generate_images has returned: its locals are gone
LocalsDropped ==
    /\ img' = 0
    /\ step' = 0
    /\ latents' = Fin(0)
    /\ noise' = NoNoise
    /\ unet_log' = <<>>
    /\ tainted' = FALSE

\* one inference step too many
scheduler_timesteps_plus_one(cfg) == set_timesteps(cfg.num_inference_steps + 1)

\* self.scheduler.set_timesteps(self.config.num_inference_steps)
scheduler_timesteps(cfg) == set_timesteps(cfg.num_inference_steps)

\* entry of generate_images up to the image loop
GenerateBegin ==
    /\ pc = "generate"
    /\ calls' = Bump(calls, "generate_images")
    /\ IF ~models_loaded \/ config.target_user_id \notin DOMAIN user_id_mapping.map
       THEN \* return None
            /\ pc' = "step3"
            /\ UNCHANGED <<timesteps, img>>
       ELSE /\ timesteps' = scheduler_timesteps(config)
            /\ img' = 0
            /\ pc' = "gen_image"
    /\ UNCHANGED <<ret, exit_code, quality, classifier, checker, config, dataRoot, generate, results, best_val_acc, train_data,
                   models_loaded, user_id_mapping, step, latents, noise,
                   unet_log, tainted, files, generated_dir, iterated>>

\* top of the image loop: fresh noise scaled by init_noise_sigma
GenImageInit ==
    /\ pc = "gen_image"
    /\ img < config.num_images_to_generate
    /\ latents' \in InitialLatents
    /\ step' = 1
    /\ tainted' = FALSE
    /\ noise' = NoNoise
    /\ unet_log' = <<>>
    /\ iterated' = Append(iterated, timesteps)
    /\ pc' = "gen_step"
    /\ UNCHANGED <<ret, exit_code, quality, classifier, checker, config, dataRoot, generate, results, calls, best_val_acc,
                   train_data, models_loaded, user_id_mapping, timesteps, img,
                   files, generated_dir>>

\* the loop left one timestep early
loop_exhausted_early(s, ts) == s >= Len(ts)

\* "for t in self.scheduler.timesteps" has no timestep left; s is the
\* index of the next one
loop_exhausted(s, ts) == s > Len(ts)

\* one iteration of "for t in self.scheduler.timesteps"
DenoiseStep ==
    /\ pc = "gen_step"
    /\ ~loop_exhausted(step, timesteps)
    /\ \E cond \in UnetOutputs, uncond \in UnetOutputs :
         LET emb == Embed(user_id_mapping.map[config.target_user_id])
             pred == guided(uncond, cond, config.guidance_scale)
         IN  /\ unet_log' = unet_calls(latents, timesteps[step], emb, cond, uncond)
             /\ noise' = [cond |-> cond, uncond |-> uncond, pred |-> pred]
             /\ latents' \in StepOutcomes(pred, latents)
             /\ tainted' = (tainted \/ ~IsFinite(cond) \/ ~IsFinite(uncond)
                                    \/ ~IsFinite(pred) \/ ~IsFinite(latents'))
    /\ calls' = [calls EXCEPT !.unet = @ + 2, !.guided = @ + 1,
                              !.scheduler_step = @ + 1]
    /\ step' = step + 1
    /\ UNCHANGED <<ret, exit_code, quality, classifier, checker, config, dataRoot, generate, pc, results, best_val_acc,
                   train_data, models_loaded, user_id_mapping, timesteps, img,
                   files, generated_dir, iterated>>

\* after the last timestep: scale, decode, clamp and save image img+1
DecodeSave ==
    /\ pc = "gen_step"
    /\ loop_exhausted(step, timesteps)
    /\ \E pixel \in decode_image(LoadedVae, latents) :
         \* image.save overwrites a file of the same name
         files' = {f \in files : f.index # img + 1}
                  \cup {ImageFile(img + 1, pixel, tainted, step - 1,
                                  "generate_images")}
    /\ img' = img + 1
    /\ pc' = "gen_image"
    /\ UNCHANGED <<ret, exit_code, quality, classifier, checker, config, dataRoot, generate, results, calls, best_val_acc,
                   train_data, models_loaded, user_id_mapping, timesteps, step,
                   latents, noise, unet_log, tainted, generated_dir, iterated>>

\* the image loop is exhausted: return str(gen_output_dir)
GenerateDone ==
    /\ pc = "gen_image"
    /\ img >= config.num_images_to_generate
    /\ generated_dir' = GenDir
    /\ results' = [results EXCEPT !.images_generated = TRUE]
                     @@ ("generated_images_dir" :> GenDir)
    /\ pc' = "step3"
    /\ LocalsDropped
    /\ UNCHANGED <<ret, exit_code, quality, classifier, checker, config, dataRoot, generate, calls, best_val_acc, train_data,
                   models_loaded, user_id_mapping, timesteps, files, iterated>>

\* an exception anywhere inside generate_images' try block: return None
GenerateRaise ==
    /\ pc \in {"gen_image", "gen_step"}
    /\ pc' = "step3"
    /\ LocalsDropped
    /\ UNCHANGED <<ret, exit_code, quality, classifier, checker, config, dataRoot, generate, results, calls, best_val_acc,
                   train_data, models_loaded, user_id_mapping, timesteps, files,
                   generated_dir, iterated>>

\* ------------------------------------------------- step 3 and the return
\* a disjunctive gate
success_gate_or(success_rate, avg_confidence) ==
    success_rate >= SuccessRateGate \/ avg_confidence >= ConfidenceGate

\* success_rate >= 0.6 and avg_confidence >= 0.8
success_gate(success_rate, avg_confidence) ==
    success_rate >= SuccessRateGate /\ avg_confidence >= ConfidenceGate

\* the empty result taken for a completed validation
score_record_unchecked(res, out) ==
    IF out.raised
    THEN [res EXCEPT !.validation_completed = TRUE]
    ELSE [res EXCEPT
            !.validation_completed = TRUE,
            !.success = success_gate(out.success_rate, out.avg_confidence)]
         @@ ("validation_result" :> out)

\* the verdict recorded without the validation_completed flag
score_record_verdict_only(res, out) ==
    IF out.raised
    THEN res
    ELSE [res EXCEPT
            !.success = success_gate(out.success_rate, out.avg_confidence)]
         @@ ("validation_result" :> out)

\* "if validation_result:" and the lines under it; validate_generated_images
\* returned {} when the scorer raised
score_record(res, out) ==
    IF out.raised
    THEN res
    ELSE [res EXCEPT
            !.validation_completed = TRUE,
            !.success = success_gate(out.success_rate, out.avg_confidence)]
         @@ ("validation_result" :> out)

\* validate_generated_images(generated_dir) and the overall verdict
ValidateImages ==
    /\ pc = "step3"
    /\ generated_dir # NoDir
    /\ calls' = Bump(calls, "validate_generated_images")
    /\ \E out \in ScorerOutcomes(files) : results' = score_record(results, out)
    /\ pc' = "returned"
    /\ UNCHANGED <<ret, exit_code, quality, classifier, checker, config, dataRoot, generate, best_val_acc, train_data,
                   models_loaded, user_id_mapping, timesteps, img, step,
                   latents, noise, unet_log, tainted, files, generated_dir,
                   iterated>>

\* generated_dir is None: nothing to score
SkipValidation ==
    /\ pc = "step3"
    /\ generated_dir = NoDir
    /\ pc' = "returned"
    /\ UNCHANGED <<ret, exit_code, quality, classifier, checker, config, dataRoot, generate, results, calls, best_val_acc,
                   train_data, models_loaded, user_id_mapping, timesteps, img,
                   step, latents, noise, unet_log, tainted, files,
                   generated_dir, iterated>>

\* validation_pipeline.main after run_full_pipeline: exit(0 or 1)
MainExit ==
    /\ pc = "returned"
    /\ exit_code' = IF results.success THEN 0 ELSE 1
    /\ pc' = "exited"
    /\ UNCHANGED <<ret, quality, classifier, checker, config, dataRoot, generate, results, calls, best_val_acc,
                   train_data, models_loaded, user_id_mapping, timesteps, img,
                   step, latents, noise, unet_log, tainted, files,
                   generated_dir, iterated>>

\* ------------------------------------------------- single_user_workflow
\* name.startswith('user_')
startswith_user(name) == name.prefix = "user" /\ Len(name.parts) >= 1

\* the directories whose id parses and equals target_user_id; the last one
\* listed is what target_user_dir ends up as
su_target_dirs(listing, target) ==
    SelectSeq(listing, LAMBDA e :
        /\ e.is_dir
        /\ startswith_user(e.name)
        /\ SplitId(e.name) # ValueError
        /\ SplitId(e.name) = target)

su_other_user_dirs(listing, target) ==
    SelectSeq(listing, LAMBDA e :
        /\ e.is_dir
        /\ startswith_user(e.name)
        /\ SplitId(e.name) # ValueError
        /\ SplitId(e.name) # target)

\* the images of dirs taken in turn: the first of each, the second of each, ...
round_robin(dirs) ==
    LET most == IF dirs = <<>> THEN 0
                ELSE MaxOf([i \in 1..Len(dirs) |-> dirs[i].images])
        turn(r) == LET left == SelectSeq(dirs, LAMBDA e : e.images >= r)
                   IN  [i \in 1..Len(left) |-> [dir |-> left[i].name, img |-> r]]
    IN  Concat([r \in 1..most |-> turn(r)])

\* UserValidationSystem.prepare_user_data: up to cap positives from the
\* target directory, up to cap negatives drawn round-robin from the others
prepare_user_data(tdir, odirs, cap) ==
    LET target_images == SubSeq(ImagePaths(tdir), 1, Min(cap, tdir.images))
        other_images == round_robin(odirs)
        negatives == SubSeq(other_images, 1, Min(cap, Len(other_images)))
    IN  [i \in 1..Len(target_images) |-> [path |-> target_images[i], label |-> 1]]
        \o [i \in 1..Len(negatives) |-> [path |-> negatives[i], label |-> 0]]

\* step 1: find the directories and prepare the training data
SuPrepare ==
    /\ pc = "su_prepare"
    /\ IF ~dataRoot.exists
       THEN \* data_root.iterdir() raises outside any try block
            /\ ret' = "raised"
            /\ pc' = "su_returned"
            /\ UNCHANGED train_data
       ELSE LET tdirs == su_target_dirs(dataRoot.listing, config.target_user_id)
                odirs == su_other_user_dirs(dataRoot.listing, config.target_user_id)
                data == prepare_user_data(tdirs[Len(tdirs)], odirs,
                                          config.max_samples_per_class)
            IN  IF tdirs = <<>> \/ Len(data) = 0
                THEN /\ ret' = "False"
                     /\ pc' = "su_returned"
                     /\ UNCHANGED train_data
                ELSE /\ train_data' = data
                     /\ pc' = "su_train"
                     /\ UNCHANGED ret
    /\ UNCHANGED <<exit_code, quality, classifier, checker, config, dataRoot, generate, results, calls,
                   best_val_acc, models_loaded, user_id_mapping, timesteps,
                   img, step, latents, noise, unet_log, tainted, files,
                   generated_dir, iterated>>

\* step 2: train_user_classifier inside try; no accuracy gate follows
SuTrain ==
    /\ pc = "su_train"
    /\ calls' = Bump(calls, "train_user_classifier")
    /\ \E out \in TrainOutcomes(train_data, config.classifier_epochs) :
         IF out.raised
         THEN ret' = "False" /\ pc' = "su_returned" /\ classifier' = classifier
         ELSE /\ ret' = ret /\ pc' = "su_generate"
              /\ classifier' = history_dropped(trained_classifier(out))
    /\ UNCHANGED <<exit_code, quality, checker, config, dataRoot, generate, results,
                   best_val_acc, train_data, models_loaded, user_id_mapping,
                   timesteps, img, step, latents, noise, unet_log, tainted,
                   files, generated_dir, iterated>>

\* how the run of inference/generate_training_style.py ends
SubprocessOutcomes == {"ok", "nonzero", "raised"}

\* the files the generation script leaves in gen_output_dir
script_files(fs, n) ==
    {f \in fs : f.index \notin 1..n}
    \cup {ImageFile(i, Fin(0), FALSE, 20, "generate_training_style") : i \in 1..n}

\* step 3 with generate_images=True: the generation script as a subprocess
SuGenerate ==
    /\ pc = "su_generate"
    /\ generate
    /\ IF ~(config.vae_path /\ config.unet_path /\ config.condition_encoder_path)
       THEN /\ ret' = "False"
            /\ pc' = "su_returned"
            /\ UNCHANGED <<calls, files, generated_dir>>
       ELSE /\ calls' = Bump(calls, "generate_images")
            /\ \E out \in SubprocessOutcomes :
                 IF out = "ok"
                 THEN /\ files' = script_files(files, config.num_images_to_generate)
                      /\ generated_dir' = GenDir
                      /\ ret' = ret
                      /\ pc' = "su_validate"
                 ELSE /\ ret' = "False"
                      /\ pc' = "su_returned"
                      /\ UNCHANGED <<files, generated_dir>>
    /\ UNCHANGED <<exit_code, quality, classifier, checker, config, dataRoot, generate, results,
                   best_val_acc, train_data, models_loaded, user_id_mapping,
                   timesteps, img, step, latents, noise, unet_log, tainted,
                   iterated>>

\* step 3 with generate_images=False
SuSkipGeneration ==
    /\ pc = "su_generate"
    /\ ~generate
    /\ pc' = "su_validate"
    /\ UNCHANGED <<ret, exit_code, quality, classifier, checker, config, dataRoot, generate, results, calls,
                   best_val_acc, train_data, models_loaded, user_id_mapping,
                   timesteps, img, step, latents, noise, unet_log, tainted,
                   files, generated_dir, iterated>>

\* step 4: score generated_images_dir; the rates are only printed
SuValidate ==
    /\ pc = "su_validate"
    /\ generated_dir # NoDir
    /\ IF generated_dir = MissingDir
       THEN /\ ret' = "False"
            /\ UNCHANGED <<calls, results>>
       ELSE /\ calls' = Bump(calls, "validate_generated_images")
            /\ \E out \in ScorerOutcomes(files) :
                 IF out.raised
                 THEN ret' = "False" /\ UNCHANGED results
                 ELSE /\ ret' = "True"
                      /\ results' = results @@ ("validation_result" :> out)
    /\ pc' = "su_returned"
    /\ UNCHANGED <<exit_code, quality, classifier, checker, config, dataRoot, generate, best_val_acc,
                   train_data, models_loaded, user_id_mapping, timesteps, img,
                   step, latents, noise, unet_log, tainted, files,
                   generated_dir, iterated>>

\* generated_images_dir is None: return True
SuSkipValidation ==
    /\ pc = "su_validate"
    /\ generated_dir = NoDir
    /\ ret' = "True"
    /\ pc' = "su_returned"
    /\ UNCHANGED <<exit_code, quality, classifier, checker, config, dataRoot, generate, results, calls,
                   best_val_acc, train_data, models_loaded, user_id_mapping,
                   timesteps, img, step, latents, noise, unet_log, tainted,
                   files, generated_dir, iterated>>

\* single_user_validation.main: sys.exit(1) unless the workflow returned
\* True; an exception that escapes ends the interpreter with status 1
SuMainExit ==
    /\ pc = "su_returned"
    /\ exit_code' = IF ret = "True" THEN 0 ELSE 1
    /\ pc' = "su_exited"
    /\ UNCHANGED <<ret, quality, classifier, checker, config, dataRoot, generate, results, calls,
                   best_val_acc, train_data, models_loaded, user_id_mapping,
                   timesteps, img, step, latents, noise, unet_log, tainted,
                   files, generated_dir, iterated>>

Next ==
    \/ TrainClassifier
    \/ LoadModels
    \/ SkipGeneration
    \/ GenerateBegin
    \/ GenImageInit
    \/ DenoiseStep
    \/ DecodeSave
    \/ GenerateDone
    \/ GenerateRaise
    \/ ValidateImages
    \/ SkipValidation
    \/ MainExit
    \/ SuPrepare
    \/ SuTrain
    \/ SuGenerate
    \/ SuSkipGeneration
    \/ SuValidate
    \/ SuSkipValidation
    \/ SuMainExit

Spec == Init /\ [][Next]_vars

\* ------------------------------------------- the mapping on its own
\* directory entries the mapping is built from
MapEntries ==
    { Entry(ID_1, TRUE, 0), Entry(ID_01, TRUE, 0), Entry(ID_2, TRUE, 0),
      Entry(ID_1_x, TRUE, 0), Entry(ID_x, TRUE, 0), Entry(user_1, TRUE, 0),
      Entry(Name("ID", <<<<3>>>>), FALSE, 0) }

\* listings without repeated entries, at most MaxDirs long
Listings(entries) ==
    {l \in SeqsUpTo(entries, MaxDirs) : \A i, j \in 1..Len(l) : l[i] = l[j] => i = j}

\* the same directory listed in any order
Reorderings(l) == {q \in [1..Len(l) -> Range(l)] : Range(q) = Range(l)}

DefaultConfig ==
    [target_user_id |-> 1, max_samples_per_class |-> MaxSamples,
     classifier_epochs |-> MaxEpochs, num_images_to_generate |-> MaxImages,
     guidance_scale |-> DefaultGuidanceScale, num_inference_steps |-> 1,
     vae_path |-> TRUE, unet_path |-> TRUE, condition_encoder_path |-> TRUE]

InitMap ==
    /\ config = DefaultConfig
    /\ dataRoot \in {Root(l) : l \in Listings(MapEntries)}
    /\ generate = TRUE
    /\ files = {}
    /\ pc = "map"
    /\ quality = NoQuality
    /\ checker = NoChecker
    /\ Fresh

\* self.user_id_mapping = self._get_user_id_mapping()
MapBuild ==
    /\ pc \in {"map", "map_built"}
    /\ user_id_mapping' = [set |-> TRUE, map |-> get_user_id_mapping(dataRoot.listing)]
    /\ pc' = "map_built"
    /\ UNCHANGED <<ret, exit_code, quality, classifier, checker, config, dataRoot, generate, results, calls, best_val_acc,
                   train_data, models_loaded, timesteps, img, step, latents,
                   noise, unet_log, tainted, files, generated_dir, iterated>>

\* iterdir() lists the same directory in another order
MapRelist ==
    /\ pc \in {"map", "map_built"}
    /\ \E q \in Reorderings(dataRoot.listing) :
         /\ q # dataRoot.listing
         /\ dataRoot' = Root(q)
    /\ UNCHANGED <<ret, exit_code, quality, classifier, checker, config, generate, pc, results, calls, best_val_acc,
                   train_data, models_loaded, user_id_mapping, timesteps, img,
                   step, latents, noise, unet_log, tainted, files,
                   generated_dir, iterated>>

NextMap == MapBuild \/ MapRelist

SpecMap == InitMap /\ [][NextMap]_vars

\* ------------------------------------------- the schedule on its own
InitSched ==
    /\ config \in {[DefaultConfig EXCEPT !.num_inference_steps = k] :
                     k \in 1..num_train_timesteps}
    /\ dataRoot = MissingRoot
    /\ generate = TRUE
    /\ files = {}
    /\ pc = "sched"
    /\ quality = NoQuality
    /\ checker = NoChecker
    /\ Fresh

\* generate_images sets the schedule once, before the image loop
SchedSetTimesteps ==
    /\ pc = "sched"
    /\ timesteps' = scheduler_timesteps(config)
    /\ pc' = "sched_loop"
    /\ UNCHANGED <<ret, exit_code, quality, classifier, checker, config, dataRoot, generate, results, calls, best_val_acc,
                   train_data, models_loaded, user_id_mapping, img, step,
                   latents, noise, unet_log, tainted, files, generated_dir,
                   iterated>>

\* one image: "for t in self.scheduler.timesteps" runs over the schedule,
\* which scheduler.step leaves as it is
SchedImage ==
    /\ pc = "sched_loop"
    /\ img < config.num_images_to_generate
    /\ iterated' = Append(iterated, timesteps)
    /\ img' = img + 1
    /\ UNCHANGED <<ret, exit_code, quality, classifier, checker, config, dataRoot, generate, pc, results, calls, best_val_acc,
                   train_data, models_loaded, user_id_mapping, timesteps, step,
                   latents, noise, unet_log, tainted, files, generated_dir>>

NextSched == SchedSetTimesteps \/ SchedImage

SpecSched == InitSched /\ [][NextSched]_vars

\* ------------------------------- the data preparation on its own
\* directories a data root can hold, each with 0..MaxSamples+1 images
DataEntries ==
    {Entry(n, TRUE, k) : n \in {ID_1, ID_2, ID_3, ID_01}, k \in 0..(MaxSamples + 1)}

\* listings of at most MaxDirs directories, no name twice
DataListings ==
    {l \in SeqsUpTo(DataEntries, MaxDirs) :
        \A i, j \in 1..Len(l) : l[i].name = l[j].name => i = j}

InitData ==
    /\ config \in {[DefaultConfig EXCEPT !.max_samples_per_class = cap] :
                     cap \in (-1)..MaxSamples}
    /\ dataRoot \in {Root(l) : l \in DataListings}
    /\ generate = TRUE
    /\ files = {}
    /\ pc = "data"
    /\ quality = NoQuality
    /\ checker = NoChecker
    /\ Fresh

\* image_paths, labels = self._prepare_classifier_data()
DataPrepare ==
    /\ pc = "data"
    /\ train_data' = prepare_classifier_data(dataRoot.listing,
                          config.target_user_id, config.max_samples_per_class)
    /\ pc' = "data_done"
    /\ UNCHANGED <<ret, exit_code, quality, classifier, checker, config, dataRoot, generate, results, calls,
                   best_val_acc, models_loaded, user_id_mapping, timesteps,
                   img, step, latents, noise, unet_log, tainted, files,
                   generated_dir, iterated>>

NextData == DataPrepare

SpecData == InitData /\ [][NextData]_vars

\* ------------------------------------ the PSNR of check_reconstruction_quality
\* the square root forgotten
psnr_without_sqrt(avg_mse) ==
    IF GtZero(avg_mse) THEN np_20log10(np_reciprocal(avg_mse)) ELSE PInf

\* 20 * np.log10(1.0 / np.sqrt(avg_mse)) if avg_mse > 0 else float('inf')
psnr_of(avg_mse) ==
    IF GtZero(avg_mse) THEN np_20log10(np_reciprocal(np_sqrt(avg_mse))) ELSE PInf

\* the positive average MSE values
PositiveMse == {Pow10(q) : q \in (-MaxExponent)..MaxExponent}

\* np.mean(mse_scores): zero, positive, or NaN
MseVals == PositiveMse \cup {Fin(0), NaN}

InitPsnr ==
    /\ config = DefaultConfig
    /\ dataRoot = MissingRoot
    /\ generate = TRUE
    /\ files = {}
    /\ pc = "avg_mse"
    /\ quality \in {[avg_mse |-> m, psnr |-> Fin(0), correlation |-> Fin(0),
                      psnr_band |-> "none", correlation_band |-> "none"] :
                         m \in MseVals}
    /\ checker = NoChecker
    /\ Fresh

\* psnr = ... from avg_mse
ComputePsnr ==
    /\ pc = "avg_mse"
    /\ quality' = [quality EXCEPT !.psnr = psnr_of(quality.avg_mse)]
    /\ pc' = "psnr"
    /\ UNCHANGED <<ret, exit_code, classifier, checker, config, dataRoot, generate, results, calls,
                   best_val_acc, train_data, models_loaded, user_id_mapping,
                   timesteps, img, step, latents, noise, unet_log, tainted,
                   files, generated_dir, iterated>>

\* the thresholds of the quality assessment: PSNR in dB, correlation in
\* hundredths
PsnrExcellent == 25
PsnrGood == 20
PsnrFair == 15
CorrVeryHigh == 90
CorrHigh == 80
CorrMedium == 70

\* the PSNR bands with the test for "fair" placed before the one for "good"
psnr_band_fair_first(p) ==
    IF FLt(Fin(PsnrExcellent), p) THEN "excellent"
    ELSE IF FLt(Fin(PsnrFair), p) THEN "fair"
    ELSE IF FLt(Fin(PsnrGood), p) THEN "good"
    ELSE "poor"

\* if psnr > 25 / elif psnr > 20 / elif psnr > 15 / else
psnr_band(p) ==
    IF FLt(Fin(PsnrExcellent), p) THEN "excellent"
    ELSE IF FLt(Fin(PsnrGood), p) THEN "good"
    ELSE IF FLt(Fin(PsnrFair), p) THEN "fair"
    ELSE "poor"

\* if correlation > 0.9 / elif correlation > 0.8 / elif correlation > 0.7 / else
correlation_band(c) ==
    IF FLt(Fin(CorrVeryHigh), c) THEN "very_high"
    ELSE IF FLt(Fin(CorrHigh), c) THEN "high"
    ELSE IF FLt(Fin(CorrMedium), c) THEN "medium"
    ELSE "low"

\* np.corrcoef(...)[0, 1]: a value in [-1, 1], in hundredths, or NaN when
\* one of the two arrays is constant
CorrVals ==
    {Fin(c) : c \in {-100, 0, CorrMedium - 1, CorrMedium, CorrMedium + 1,
                      CorrHigh, CorrHigh + 1, CorrVeryHigh, CorrVeryHigh + 1, 100}}
        \cup {NaN}

\* correlation = np.corrcoef(...)[0, 1]
ComputeCorrelation ==
    /\ pc = "psnr"
    /\ \E c \in CorrVals : quality' = [quality EXCEPT !.correlation = c]
    /\ pc' = "correlation"
    /\ UNCHANGED <<ret, exit_code, classifier, checker, config, dataRoot, generate, results, calls,
                   best_val_acc, train_data, models_loaded, user_id_mapping,
                   timesteps, img, step, latents, noise, unet_log, tainted,
                   files, generated_dir, iterated>>

\* the two if/elif chains of the quality assessment
AssessQuality ==
    /\ pc = "correlation"
    /\ quality' = [quality EXCEPT
                      !.psnr_band = psnr_band(quality.psnr),
                      !.correlation_band = correlation_band(quality.correlation)]
    /\ pc' = "assessed"
    /\ UNCHANGED <<ret, exit_code, classifier, checker, config, dataRoot, generate, results, calls,
                   best_val_acc, train_data, models_loaded, user_id_mapping,
                   timesteps, img, step, latents, noise, unet_log, tainted,
                   files, generated_dir, iterated>>

NextPsnr == ComputePsnr \/ ComputeCorrelation \/ AssessQuality

SpecPsnr == InitPsnr /\ [][NextPsnr]_vars

\* ------------------- the two sample loops of check_reconstruction_quality
\* def check_reconstruction_quality(self, vae=None, num_samples=6)
DefaultNumSamples == 6

\* for idx in indices[:4]
CorrSamples == 4

\* orders torch.randperm(d) can give: the rotations of 0..d-1 and their
\* reversals
RandpermOutcomes(d) ==
    {[i \in 1..d |-> (i - 1 + r) % d] : r \in 0..(d - 1)}
        \cup {[i \in 1..d |-> (d - i + r) % d] : r \in 0..(d - 1)}

\* values of one posterior.sample(): the posterior of an image is a
\* distribution, and two samples of it agree or differ
PosteriorSamples == {1, 2}

\* the correlation loop going over every selected sample
corr_indices_all(indices) == indices

\* the samples the correlation loop goes over
corr_indices(indices) == SliceTo(indices, CorrSamples)

\* the sample indices of a list of per-sample records
IndicesOf(l) == [k \in 1..Len(l) |-> l[k].idx]

InitQuality ==
    /\ config = DefaultConfig
    /\ dataRoot = MissingRoot
    /\ generate = TRUE
    /\ files = {}
    /\ pc = "q_select"
    /\ quality \in {[num_samples |-> n, dataset_len |-> d, indices |-> <<>>,
                      mse_scores |-> <<>>, averaged |-> <<>>,
                      all_recon |-> <<>>, correlated |-> <<>>] :
                         n \in 0..DefaultNumSamples, d \in 0..MaxDataset}
    /\ checker = NoChecker
    /\ Fresh

\* indices = torch.randperm(len(dataset))[:num_samples], then
\* plt.subplots(3, num_samples), which raises for num_samples = 0
QualitySelect ==
    /\ pc = "q_select"
    /\ \E perm \in RandpermOutcomes(quality.dataset_len) :
         quality' = [quality EXCEPT !.indices = SliceTo(perm, quality.num_samples)]
    /\ pc' = IF quality.num_samples = 0 THEN "q_none" ELSE "q_mse"
    /\ UNCHANGED <<ret, exit_code, classifier, checker, config, dataRoot, generate, results, calls,
                   best_val_acc, train_data, models_loaded, user_id_mapping,
                   timesteps, img, step, latents, noise, unet_log, tainted,
                   files, generated_dir, iterated>>

\* one iteration of "for i, idx in enumerate(indices)": encode, sample the
\* posterior, decode, record the MSE, draw into axes[:, i]; for
\* num_samples = 1 axes has one dimension and axes[0, i] raises
QualityMseStep ==
    /\ pc = "q_mse"
    /\ Len(quality.mse_scores) < Len(quality.indices)
    /\ \E z \in PosteriorSamples :
         quality' = [quality EXCEPT !.mse_scores =
                        Append(@, [idx |-> quality.indices[Len(@) + 1],
                                   recon |-> z])]
    /\ pc' = IF quality.num_samples = 1 THEN "q_none" ELSE "q_mse"
    /\ UNCHANGED <<ret, exit_code, classifier, checker, config, dataRoot, generate, results, calls,
                   best_val_acc, train_data, models_loaded, user_id_mapping,
                   timesteps, img, step, latents, noise, unet_log, tainted,
                   files, generated_dir, iterated>>

\* the loop is exhausted: avg_mse = np.mean(mse_scores)
QualityAverage ==
    /\ pc = "q_mse"
    /\ Len(quality.mse_scores) >= Len(quality.indices)
    /\ quality' = [quality EXCEPT !.averaged = quality.mse_scores]
    /\ pc' = "q_corr"
    /\ UNCHANGED <<ret, exit_code, classifier, checker, config, dataRoot, generate, results, calls,
                   best_val_acc, train_data, models_loaded, user_id_mapping,
                   timesteps, img, step, latents, noise, unet_log, tainted,
                   files, generated_dir, iterated>>

\* one iteration of "for idx in indices[:4]": encode, sample the
\* posterior, decode, append to all_orig and all_recon
QualityCorrStep ==
    /\ pc = "q_corr"
    /\ Len(quality.all_recon) < Len(corr_indices(quality.indices))
    /\ \E z \in PosteriorSamples :
         quality' = [quality EXCEPT !.all_recon =
                        Append(@, [idx |-> corr_indices(quality.indices)[Len(@) + 1],
                                   recon |-> z])]
    /\ UNCHANGED <<ret, exit_code, classifier, checker, config, dataRoot, generate, pc, results, calls,
                   best_val_acc, train_data, models_loaded, user_id_mapping,
                   timesteps, img, step, latents, noise, unet_log, tainted,
                   files, generated_dir, iterated>>

\* the loop is exhausted: correlation = np.corrcoef(np.concatenate(...),
\* ...)[0, 1], where np.concatenate raises for an empty list, and the
\* metrics are returned
QualityCorrelate ==
    /\ pc = "q_corr"
    /\ Len(quality.all_recon) >= Len(corr_indices(quality.indices))
    /\ IF quality.all_recon = <<>>
       THEN /\ pc' = "q_none"
            /\ UNCHANGED quality
       ELSE /\ quality' = [quality EXCEPT !.correlated = quality.all_recon]
            /\ pc' = "q_metrics"
    /\ UNCHANGED <<ret, exit_code, classifier, checker, config, dataRoot, generate, results, calls,
                   best_val_acc, train_data, models_loaded, user_id_mapping,
                   timesteps, img, step, latents, noise, unet_log, tainted,
                   files, generated_dir, iterated>>

NextQuality ==
    \/ QualitySelect
    \/ QualityMseStep
    \/ QualityAverage
    \/ QualityCorrStep
    \/ QualityCorrelate

SpecQuality == InitQuality /\ [][NextQuality]_vars

\* ------------------------------------------------- VAEChecker.full_check
\* an entry of output_dir: whether it is a directory, whether it holds
\* final_model, and whether final_model holds config.json
TrainDirEntries ==
    {e \in [is_dir : BOOLEAN, final_model : BOOLEAN, config_json : BOOLEAN] :
        /\ e.final_model => e.is_dir
        /\ e.config_json => e.final_model}

\* output_dir: absent, or holding up to MaxDirs entries in iterdir order
OutputDirs ==
    {[exists |-> FALSE, listing |-> <<>>]}
        \cup {[exists |-> TRUE, listing |-> l] : l \in SeqsUpTo(TrainDirEntries, MaxDirs)}

\* training_dirs: the positions of the directories under output_dir
training_dirs(listing) == {i \in 1..Len(listing) : listing[i].is_dir}

\* available_models of check_training_status
available_models(listing) ==
    {i \in training_dirs(listing) :
        listing[i].final_model /\ listing[i].config_json}

\* model_path as test_model_loading finds it: the first directory that
\* holds final_model, None when there is none
find_model_path(listing) ==
    LET found == {i \in training_dirs(listing) : listing[i].final_model}
    IN  IF found = {} THEN None
        ELSE CHOOSE i \in found : \A j \in found : i <= j

\* how AutoencoderKL.from_pretrained and the forward test end for a model
\* directory: without config.json from_pretrained raises
VaeLoadOutcomes(entry) ==
    IF entry.config_json THEN {"ok", "raised"} ELSE {"raised"}

\* what check_reconstruction_quality(vae) returns
QualityOutcomes == {"None", "metrics"}

InitCheck ==
    /\ config = DefaultConfig
    /\ dataRoot = MissingRoot
    /\ generate = TRUE
    /\ files = {}
    /\ pc = "full_check"
    /\ quality = NoQuality
    /\ checker \in {[stage |-> "status", output_dir |-> o, stages |-> <<>>,
                      available |-> {}, status |-> FALSE, model_path |-> None,
                      vae |-> FALSE, metrics |-> "unset"] : o \in OutputDirs}
    /\ Fresh

\* stage 1: check_training_status() and the return on False
CheckTrainingStatus ==
    /\ checker.stage = "status"
    /\ LET o == checker.output_dir
           avail == IF o.exists THEN available_models(o.listing) ELSE {}
           ok == o.exists /\ training_dirs(o.listing) # {} /\ avail # {}
       IN  checker' = [checker EXCEPT
                          !.stages = Append(@, "check_training_status"),
                          !.available = avail,
                          !.status = ok,
                          !.stage = IF ok THEN "loading" ELSE "returned"]
    /\ UNCHANGED <<ret, exit_code, quality, classifier, config, dataRoot, generate, pc, results, calls,
                   best_val_acc, train_data, models_loaded, user_id_mapping,
                   timesteps, img, step, latents, noise, unet_log, tainted,
                   files, generated_dir, iterated>>

\* stage 2: test_model_loading() and the return when vae is None
TestModelLoading ==
    /\ checker.stage = "loading"
    /\ LET l == checker.output_dir.listing
           path == find_model_path(l)
       IN  IF path = None
           THEN checker' = [checker EXCEPT
                               !.stages = Append(@, "test_model_loading"),
                               !.stage = "returned"]
           ELSE \E out \in VaeLoadOutcomes(l[path]) :
                  checker' = [checker EXCEPT
                                 !.stages = Append(@, "test_model_loading"),
                                 !.model_path = path,
                                 !.vae = (out = "ok"),
                                 !.stage = IF out = "ok" THEN "quality" ELSE "returned"]
    /\ UNCHANGED <<ret, exit_code, quality, classifier, config, dataRoot, generate, pc, results, calls,
                   best_val_acc, train_data, models_loaded, user_id_mapping,
                   timesteps, img, step, latents, noise, unet_log, tainted,
                   files, generated_dir, iterated>>

\* stage 3: check_reconstruction_quality(vae), then the summary, which is
\* printed only for metrics that are not None
CheckQuality ==
    /\ checker.stage = "quality"
    /\ \E m \in QualityOutcomes :
         checker' = [checker EXCEPT
                        !.stages = Append(@, "check_reconstruction_quality"),
                        !.metrics = m,
                        !.stage = "returned"]
    /\ UNCHANGED <<ret, exit_code, quality, classifier, config, dataRoot, generate, pc, results, calls,
                   best_val_acc, train_data, models_loaded, user_id_mapping,
                   timesteps, img, step, latents, noise, unet_log, tainted,
                   files, generated_dir, iterated>>

NextCheck == CheckTrainingStatus \/ TestModelLoading \/ CheckQuality

SpecCheck == InitCheck /\ [][NextCheck]_vars

\* ================================================================ claims
\* run_full_pipeline has returned its record
Returned == pc \in {"returned", "exited"}

\* the run was started through single_user_validation.main
SingleUser ==
    pc \in {"su_prepare", "su_train", "su_generate", "su_validate",
            "su_returned", "su_exited"}

\* a denoising step of the current image has completed
StepDone == pc = "gen_step" /\ step > 1

\* C1: overall success is True exactly when scoring completed and the
\* scorer's record has success_rate >= 0.6 and avg_confidence >= 0.8.
C1_SuccessIffBothGates ==
    results.success <=>
        /\ results.validation_completed
        /\ "validation_result" \in DOMAIN results
        /\ results.validation_result.success_rate >= 60
        /\ results.validation_result.avg_confidence >= 80

\* a run that ended successful at the exact bounds 0.6 / 0.8
C1_Witness ==
    /\ Returned
    /\ results.success
    /\ results.validation_result.success_rate = 60
    /\ results.validation_result.avg_confidence = 80

\* C2: when the best validation accuracy does not exceed 0.7 the run has
\* returned without load_models, generate_images or
\* validate_generated_images being entered, all four flags False.
C2_AbortBeforeGeneration ==
    (best_val_acc # None /\ best_val_acc <= 70) =>
        /\ Returned
        /\ calls.load_models = 0
        /\ calls.generate_images = 0
        /\ calls.validate_generated_images = 0
        /\ ~results.classifier_trained
        /\ ~results.images_generated
        /\ ~results.validation_completed
        /\ ~results.success

\* a run aborted with the best accuracy exactly at 0.7
C2_Witness == Returned /\ best_val_acc = 70 /\ calls.train_user_classifier = 1

\* the run goes on to generation once training passed: it is not aborted,
\* with generation enabled it does not end without load_models, and with
\* the models loaded generate_images is entered
ProceedsToGeneration(passed) ==
    passed =>
        /\ results.classifier_trained
        /\ (generate /\ Returned) => calls.load_models = 1
        /\ (generate /\ models_loaded /\ pc # "generate") => calls.generate_images = 1

\* C3 as stated: best validation accuracy >= 0.7, exactly 0.7 included,
\* lets the run proceed to generation.
C3_ProceedsAtOrAboveGate ==
    ProceedsToGeneration(best_val_acc # None /\ best_val_acc >= 70)

\* C3 amended: best validation accuracy strictly above 0.7 lets the run
\* proceed to generation.
C3_ProceedsAboveGate ==
    ProceedsToGeneration(best_val_acc # None /\ best_val_acc > 70)

\* sampling has started after a passed training
C3_Witness ==
    /\ best_val_acc > 70
    /\ generate
    /\ models_loaded
    /\ calls.generate_images = 1
    /\ pc = "gen_step"

\* C4: train_classifier never enters train_user_classifier with an empty
\* class.
C4_NoTrainingWithEmptyClass ==
    (~SingleUser /\ calls.train_user_classifier > 0) =>
        /\ \E i \in 1..Len(train_data) : train_data[i].label = 1
        /\ \E i \in 1..Len(train_data) : train_data[i].label = 0

\* the identity ids found under a listing
IdsFound(l) ==
    {SplitId(l[i].name) : i \in {j \in 1..Len(l) :
        l[j].is_dir /\ startswith_ID(l[j].name) /\ SplitId(l[j].name) # ValueError}}

\* C5: the mapping is a bijection from the ids found onto 0..N-1 (N its
\* number of entries), ascending in the id, and the same for every order
\* in which the directory is listed.
C5_MappingIsBijection ==
    user_id_mapping.set =>
        LET m == user_id_mapping.map
            N == Cardinality(DOMAIN m)
        IN  /\ DOMAIN m = IdsFound(dataRoot.listing)
            /\ {m[u] : u \in DOMAIN m} = 0..(N - 1)
            /\ \A u, v \in DOMAIN m : u < v => m[u] < m[v]
            /\ \A q \in Reorderings(dataRoot.listing) : get_user_id_mapping(q) = m

\* C6: no image file is written for a sample in whose denoising a
\* non-finite value occurred.
C6_NoFileFromNonFiniteSample == \A f \in files : ~f.nonfinite

\* the fields run_full_pipeline puts into its record
RecordFields ==
    {"target_user_id", "config", "classifier_trained", "images_generated",
     "validation_completed", "success", "generated_images_dir",
     "validation_result"}

\* C7: the record of a failed run carries a failure-reason field, a field
\* beyond the ids, flags and outputs.
C7_FailureHasReason ==
    (Returned /\ ~results.success) => (DOMAIN results) \ RecordFields # {}

\* C8: every image's loop iterates the same sequence of exactly k
\* timesteps, strictly decreasing, inside 0..999.
C8_Timesteps ==
    \A i \in 1..Len(iterated) :
        LET s == iterated[i]
            k == config.num_inference_steps
        IN  /\ Len(s) = k
            /\ \A j \in 1..(Len(s) - 1) : s[j] > s[j + 1]
            /\ \A j \in 1..Len(s) : s[j] >= 0 /\ s[j] <= 999
            /\ s = iterated[1]

\* two images sampled over a schedule whose step count does not divide 1000
C8_Witness ==
    /\ Len(iterated) = 2
    /\ config.num_inference_steps = 600
    /\ Len(iterated[2]) = 600

\* C9: after each step the noise estimate is uncond + w * (cond - uncond),
\* cond the output for the identity embedding and uncond the output for
\* the all-zero embedding of the same shape, on the same latent and
\* timestep; the network has been evaluated twice per step.
C9_GuidedEstimate ==
    /\ StepDone =>
        LET c == unet_log[1]
            u == unet_log[2]
            w == Fin(config.guidance_scale)
        IN  /\ Len(unet_log) = 2
            /\ ~c.encoder_hidden_states.zero
            /\ c.encoder_hidden_states.idx = user_id_mapping.map[config.target_user_id]
            /\ u.encoder_hidden_states.zero
            /\ u.encoder_hidden_states.shape = c.encoder_hidden_states.shape
            /\ u.latents = c.latents
            /\ u.t = c.t
            /\ c.t = timesteps[step - 1]
            /\ noise.pred = FAdd(u.sample, FMul(w, FSub(c.sample, u.sample)))
    /\ pc = "gen_step" =>
        calls.unet = 2 * (img * config.num_inference_steps + (step - 1))
    /\ pc = "gen_image" => calls.unet = 2 * img * config.num_inference_steps

\* a guided step with distinct finite predictions: 1 + 15 * (3 - 1) = 31
C9_Witness ==
    /\ StepDone
    /\ config.guidance_scale = 15
    /\ noise.cond = Fin(3)
    /\ noise.uncond = Fin(1)
    /\ noise.pred = Fin(31)
    /\ calls.unet = 2 * config.num_inference_steps + 2

C11_SamplingLoop ==
    LET k == config.num_inference_steps IN
    /\ (pc = "gen_step" /\ step = 1) => latents \in InitialLatents
    /\ pc = "gen_step" =>
        /\ step <= k + 1
        /\ calls.guided = img * k + (step - 1)
        /\ calls.scheduler_step = calls.guided
    /\ StepDone =>
        /\ unet_log[1].t = timesteps[step - 1]
        /\ \A j \in 1..(step - 2) : timesteps[j] > timesteps[step - 1]
        /\ latents \in StepOutcomes(noise.pred, unet_log[1].latents)
    /\ pc = "gen_image" =>
        /\ calls.guided = img * k
        /\ calls.scheduler_step = img * k
    /\ \A f \in files : f.by = "generate_images" => f.steps = k

\* the second sample has been decoded after two reverse steps each
C11_Witness ==
    /\ pc = "gen_image"
    /\ img = 2
    /\ config.num_inference_steps = 2
    /\ calls.scheduler_step = 4
    /\ \E f \in files : f.index = 2 /\ f.by = "generate_images" /\ f.steps = 2

\* C12: once generate_images has completed, the directory it returned
\* holds exactly num_images_to_generate image files, and a scoring record
\* counts as many.
C12_ExactlyNFiles ==
    results.images_generated =>
        /\ Cardinality(files) = config.num_images_to_generate
        /\ "validation_result" \in DOMAIN results =>
              results.validation_result.total_images = config.num_images_to_generate

\* names of the entries of a sequence of directory entries
Names(dirs) == {dirs[i].name : i \in 1..Len(dirs)}

\* the identity directories each consumer recognises under a listing
MappingDirs(l) ==
    Names(SelectSeq(l, LAMBDA e :
        e.is_dir /\ startswith_ID(e.name) /\ SplitId(e.name) # ValueError))
PrepareDirs(l, t) == Names(target_user_dir(l, t)) \cup Names(other_user_dirs(l, t))
WorkflowDirs(l, t) == Names(su_target_dirs(l, t)) \cup Names(su_other_user_dirs(l, t))

\* the directories each consumer takes for the target identity
MappingTargets(l, t) ==
    Names(SelectSeq(l, LAMBDA e :
        e.is_dir /\ startswith_ID(e.name) /\ SplitId(e.name) = t))
PrepareTargets(l, t) == Names(target_user_dir(l, t))
WorkflowTargets(l, t) == Names(su_target_dirs(l, t))

\* C13: once a run has looked at its data root, the mapping, the
\* classifier data preparation and the single-user workflow recognise the
\* same identity directories and the same target directory there, and the
\* mapping is built at most once.
C13_SingleConstruction ==
    (dataRoot.exists /\ pc \notin {"train", "su_prepare"}) =>
        LET l == dataRoot.listing
            t == config.target_user_id
        IN  /\ MappingDirs(l) = PrepareDirs(l, t)
            /\ PrepareDirs(l, t) = WorkflowDirs(l, t)
            /\ MappingTargets(l, t) = PrepareTargets(l, t)
            /\ PrepareTargets(l, t) = WorkflowTargets(l, t)
            /\ calls.load_models <= 1

\* the negatives in train_data that come from directory d
TakenFrom(d) ==
    Cardinality({i \in 1..Len(train_data) :
        train_data[i].label = 0 /\ train_data[i].path.dir = d.name})

\* the number of negatives in train_data
Negatives == Cardinality({i \in 1..Len(train_data) : train_data[i].label = 0})

\* C14: when the negatives have reached the cap, any two other identities
\* that still have unused images have given numbers of negatives that
\* differ by at most one.
C14_NegativesRoundRobin ==
    (pc = "data_done" /\ Negatives = config.max_samples_per_class) =>
        LET odirs == other_user_dirs(dataRoot.listing, config.target_user_id) IN
        \A i, j \in 1..Len(odirs) :
            (TakenFrom(odirs[i]) < odirs[i].images
                /\ TakenFrom(odirs[j]) < odirs[j].images) =>
                /\ TakenFrom(odirs[i]) - TakenFrom(odirs[j]) <= 1
                /\ TakenFrom(odirs[j]) - TakenFrom(odirs[i]) <= 1

\* 0 <= x <= 1
InUnitRange(x) == x.k = "fin" /\ x.v >= 0 /\ x.v <= 1

\* C23: the decoding block divides the final latent by the scaling factor,
\* decodes and clamps, so every pixel of every image generate_images
\* produces lies in [0, 1]; an autoencoder behind a wrapper is decoded
\* through .module with the same result as the autoencoder itself.
C23_PixelsInUnitRange ==
    /\ \A f \in files : f.by = "generate_images" => InUnitRange(f.pixel)
    /\ pc = "gen_step" =>
          decode_image(Wrapped(LoadedVae), latents) = decode_image(LoadedVae, latents)

\* the number of positives in train_data
Positives == Cardinality({i \in 1..Len(train_data) : train_data[i].label = 1})

\* C22: for a cap max_samples_per_class that is a number of examples,
\* _prepare_classifier_data returns at most that many positives and at most
\* that many negatives; every positive is an image of the target identity's
\* directory, labelled 1, and every negative an image of another identity's
\* directory, labelled 0.
C22_CappedAndLabelled ==
    (pc = "data_done" /\ config.max_samples_per_class >= 0) =>
        /\ Positives <= config.max_samples_per_class
        /\ Negatives <= config.max_samples_per_class
        /\ \A i \in 1..Len(train_data) :
              LET x == train_data[i] IN
              /\ x.label \in {0, 1}
              /\ \E k \in 1..Len(dataRoot.listing) :
                    /\ dataRoot.listing[k].name = x.path.dir
                    /\ x.path.img \in 1..dataRoot.listing[k].images
              /\ x.label = 1 => x.path.dir = IDName(config.target_user_id)
              /\ x.label = 0 =>
                    /\ SplitId(x.path.dir) # ValueError
                    /\ SplitId(x.path.dir) # config.target_user_id

\* both classes cut at the cap, beside a directory ID_01 of the target
\* identity that gives no example to either class
C22_Witness ==
    /\ pc = "data_done"
    /\ config.max_samples_per_class = MaxSamples
    /\ Positives = MaxSamples
    /\ Negatives = MaxSamples
    /\ \E k \in 1..Len(dataRoot.listing) :
          /\ dataRoot.listing[k].name = ID_01
          /\ dataRoot.listing[k].images > 0
    /\ \E k \in 1..Len(dataRoot.listing) :
          /\ dataRoot.listing[k].name = IDName(config.target_user_id)
          /\ dataRoot.listing[k].images > MaxSamples

\* load_models was entered and reported failure
LoadFailed == calls.load_models = 1 /\ ~models_loaded

\* C16: after a failed load_models the generation step is skipped, images
\* that already exist in the generated-images directory are still scored,
\* and the run returns its record.
C16_LoadFailureStillValidates ==
    LoadFailed =>
        /\ pc \in {"step3", "returned", "exited"}
        /\ calls.generate_images = 0
        /\ (Returned /\ files # {}) => calls.validate_generated_images = 1

\* C17: with no image in the generated-images directory no scoring record
\* exists, and validation_completed and success are False.
C17_EmptyDirectoryIsError ==
    files = {} =>
        /\ "validation_result" \notin DOMAIN results
        /\ ~results.validation_completed
        /\ ~results.success
        /\ pc \in {"su_returned", "su_exited"} /\ generated_dir # NoDir
              => ret # "True"

\* run_full_pipeline has returned after scoring the empty directory that
\* a generation of zero images left
C17_Witness ==
    /\ pc = "returned"
    /\ files = {}
    /\ generated_dir = GenDir
    /\ results.images_generated
    /\ calls.validate_generated_images = 1

\* overall success as the spec defines it: scoring completed with both
\* gates met
OverallSuccess ==
    /\ "validation_result" \in DOMAIN results
    /\ results.validation_result.success_rate >= SuccessRateGate
    /\ results.validation_result.avg_confidence >= ConfidenceGate

\* C15: a process that has exited did so with code 0 exactly when the
\* run was an overall success, whichever entry point started it.
C15_ExitCodeIffSuccess ==
    exit_code # None => (exit_code = 0 <=> OverallSuccess)

\* the data root exists and has no directory of the target identity, under
\* the naming of the entry point that was started
TargetDirAbsent ==
    /\ dataRoot.exists
    /\ \A i \in 1..Len(dataRoot.listing) :
         LET e == dataRoot.listing[i] IN
         ~ /\ e.is_dir
           /\ IF SingleUser
              THEN startswith_user(e.name) /\ SplitId(e.name) = config.target_user_id
              ELSE e.name = IDName(config.target_user_id)

PsnrIsTheFormula ==
    quality.avg_mse \in PositiveMse =>
        /\ IsFinite(quality.psnr)
        /\ quality.avg_mse.v \div 2 = -quality.psnr.v

C21_PassIsMaxOverEpochs ==
    /\ classifier.val_acc # <<>> =>
          /\ results.classifier_trained = (MaxOf(classifier.val_acc) > MinValAcc)
          /\ best_val_acc = MaxOf(classifier.val_acc)
          /\ classifier.epoch = Len(classifier.val_acc)
    /\ ~SingleUser /\ calls.validate_generated_images > 0 =>
          classifier.epoch = config.classifier_epochs

\* training passed on the first epoch's accuracy although the final epoch,
\* whose parameters are kept, is below the threshold
C21_Witness ==
    /\ pc = "step2"
    /\ results.classifier_trained
    /\ Len(classifier.val_acc) = 2
    /\ classifier.val_acc[1] > MinValAcc
    /\ classifier.val_acc[2] <= MinValAcc
    /\ classifier.epoch = 2

\* a > b on floats: False whenever a NaN is involved
FGt(a, b) == FLt(b, a)

\* C24: the assessment puts every PSNR value in exactly one of four bands
\* (excellent above 25 dB, good above 20, fair above 15, poor otherwise;
\* +infinity is excellent) and every correlation value in exactly one of
\* four bands by the thresholds 0.9, 0.8 and 0.7.
C24_BandsPartition ==
    pc = "assessed" =>
        LET p == quality.psnr
            c == quality.correlation
            b == quality.psnr_band
            d == quality.correlation_band
        IN  /\ b \in {"excellent", "good", "fair", "poor"}
            /\ (b = "excellent") = FGt(p, Fin(PsnrExcellent))
            /\ (b = "good") = (~FGt(p, Fin(PsnrExcellent)) /\ FGt(p, Fin(PsnrGood)))
            /\ (b = "fair") = (~FGt(p, Fin(PsnrGood)) /\ FGt(p, Fin(PsnrFair)))
            /\ (b = "poor") = ~FGt(p, Fin(PsnrFair))
            /\ p = PInf => b = "excellent"
            /\ d \in {"very_high", "high", "medium", "low"}
            /\ (d = "very_high") = FGt(c, Fin(CorrVeryHigh))
            /\ (d = "high") = (~FGt(c, Fin(CorrVeryHigh)) /\ FGt(c, Fin(CorrHigh)))
            /\ (d = "medium") = (~FGt(c, Fin(CorrHigh)) /\ FGt(c, Fin(CorrMedium)))
            /\ (d = "low") = ~FGt(c, Fin(CorrMedium))

\* a PSNR of exactly 25 dB is good, not excellent, and a correlation that is
\* NaN is low
C24_Witness ==
    /\ pc = "assessed"
    /\ quality.psnr = Fin(PsnrExcellent)
    /\ quality.psnr_band = "good"
    /\ quality.correlation = NaN
    /\ quality.correlation_band = "low"

\* C25: with N selected samples the MSE is averaged over all N of them,
\* and the correlation is computed over the first min(4, N) of the same
\* samples, in the same order.
C25_MseAllCorrelationFirstFour ==
    pc = "q_metrics" =>
        LET N == Len(quality.indices) IN
        /\ N = Min(quality.num_samples, quality.dataset_len)
        /\ IndicesOf(quality.averaged) = quality.indices
        /\ IndicesOf(quality.correlated) =
              SubSeq(quality.indices, 1, Min(CorrSamples, N))

\* more than four samples were selected, in an order that is not the
\* dataset's
C25_Witness ==
    /\ pc = "q_metrics"
    /\ Len(quality.indices) > CorrSamples
    /\ quality.indices[1] > quality.indices[2]
    /\ Len(quality.correlated) = CorrSamples

\* C30: the mse and the correlation returned together describe the same
\* reconstructions: for each of the first min(4, N) samples the
\* reconstruction that enters the correlation is the one whose MSE was
\* recorded.
C30_SameReconstructions ==
    pc = "q_metrics" =>
        \A j \in 1..Len(quality.correlated) :
            /\ quality.correlated[j].idx = quality.averaged[j].idx
            /\ quality.correlated[j].recon = quality.averaged[j].recon

\* C26: in every record run_full_pipeline returns, success implies
\* validation_completed, validation_completed implies images_generated,
\* images_generated implies classifier_trained, and validation_result is
\* present exactly when validation_completed is True.
C26_FlagChain ==
    Returned =>
        /\ results.success => results.validation_completed
        /\ results.validation_completed => results.images_generated
        /\ results.images_generated => results.classifier_trained
        /\ ("validation_result" \in DOMAIN results) = results.validation_completed

\* a record from the middle of the chain: images were generated and handed
\* to the scorer, which gave no result
C26_Witness ==
    /\ Returned
    /\ calls.validate_generated_images = 1
    /\ results.classifier_trained
    /\ results.images_generated
    /\ ~results.validation_completed
    /\ "validation_result" \notin DOMAIN results

\* C28: a run_full_pipeline(generate_images=False) never loads models,
\* never generates and never scores images; images_generated,
\* validation_completed and success stay False and main exits with code 1,
\* whatever the accuracy of the classifier.
C28_NoGenerationNoSuccess ==
    (~SingleUser /\ ~generate) =>
        /\ calls.load_models = 0
        /\ calls.generate_images = 0
        /\ calls.validate_generated_images = 0
        /\ calls.unet = 0
        /\ ~results.images_generated
        /\ ~results.validation_completed
        /\ ~results.success
        /\ generated_dir = NoDir
        /\ pc = "exited" => exit_code = 1

\* the classifier passed with the highest accuracy, and the run still
\* exited with 1
C28_Witness ==
    /\ pc = "exited"
    /\ ~generate
    /\ results.classifier_trained
    /\ best_val_acc > MinValAcc
    /\ exit_code = 1

\* C27: whenever the target id is a key of the mapping _get_user_id_mapping
\* builds for a data root, _prepare_classifier_data on that data root finds
\* the identity's directory as the positive class (both matchers take the
\* same directories for the target, names like ID_07 for id 7 included),
\* and no image of the target identity is labelled 0.
C27_MappedTargetIsPositive ==
    pc = "data_done" =>
        LET l == dataRoot.listing
            t == config.target_user_id
        IN  /\ t \in DOMAIN get_user_id_mapping(l) =>
                  /\ target_user_dir(l, t) # <<>>
                  /\ PrepareTargets(l, t) = MappingTargets(l, t)
            /\ \A i \in 1..Len(train_data) :
                  train_data[i].label = 0 => SplitId(train_data[i].path.dir) # t

\* the stages of full_check in their order
FullCheckStages ==
    <<"check_training_status", "test_model_loading", "check_reconstruction_quality">>

\* C29: full_check runs its stages strictly in order and stops at the first
\* failure, and whenever check_training_status returned True the model
\* test_model_loading picks is one of those check_training_status reported
\* as available (final_model with config.json).
C29_LoadsAnAvailableModel ==
    /\ Len(checker.stages) <= Len(FullCheckStages)
    /\ checker.stages = SubSeq(FullCheckStages, 1, Len(checker.stages))
    /\ (Len(checker.stages) >= 1 /\ ~checker.status) => checker.stage = "returned"
    /\ (Len(checker.stages) >= 2 /\ ~checker.vae) => checker.stage = "returned"
    /\ (checker.status /\ Len(checker.stages) >= 2) =>
          checker.model_path \in checker.available

\* C20: a pipeline run that has started, and got as far as training its
\* classifier, has a guidance_scale >= 0 and a positive classifier_epochs.
C20_ConfigValidated ==
    (~SingleUser /\ calls.train_user_classifier > 0) =>
        /\ config.guidance_scale >= 0
        /\ config.classifier_epochs > 0

====
